---- MODULE Spec2Model ----
(***************************************************************************)
(* Model of three parts of vulkano:                                        *)
(*   - memory/pool/mod.rs: memory-type selection and the pooled-versus-    *)
(*     dedicated allocation policy of MemoryPool::alloc_from_requirements  *)
(*   - descriptor_set/mod.rs: DescriptorSetWithOffsets::new                *)
(*   - sync/semaphore.rs: Semaphore construction, pooling and drop         *)
(* Each part has its own specification (SpecAlloc, SpecDesc, SpecSem); the *)
(* variables of the other parts stay at their initial values.              *)
(***************************************************************************)
EXTENDS Integers, Sequences, FiniteSets, TLC

VARIABLES
    memory_types,    \* device.physical_device().memory_types(), ascending id
    request,         \* arguments of the alloc_from_requirements call
    enabled_extensions,  \* device.enabled_extensions()
    filter_calls,    \* type ids the caller's filter was invoked with, in order
    generic_calls,   \* calls made to self.alloc_generic, in order
    native_allocs,   \* calls made to DeviceMemory::dedicated_alloc[_and_map]
    callee_results,  \* what those calls returned, in order
    result,          \* what the call produced
    properties,      \* layout.device().physical_device().properties()
    bindings,        \* descriptor_set.layout().desc().bindings()
    dynamic_offsets, \* the offsets given to DescriptorSetWithOffsets::new
    with_offsets,    \* what DescriptorSetWithOffsets::new produced
    semaphore_pool,  \* device.semaphore_pool(): Vec of native handles
    exportable_semaphore_pool,  \* device.exportable_semaphore_pool()
    semaphores,      \* the live Semaphore values
    created,         \* native semaphores created so far: handles 1..created
    exportable,      \* the handles created with an ExportSemaphoreCreateInfo
    created_by,      \* per handle: the constructor that created it
    destroy_count,   \* destroy_semaphore calls per handle
    last_op,         \* the last Semaphore operation and what it returned
    pc,              \* per thread: where it stands in from_pool or drop
    lock,            \* the thread holding the semaphore_pool mutex, if any
    local,           \* per thread: the Semaphore it is dropping
    allocation,      \* the PotentialDedicatedAllocation being asked
    observed,        \* what its accessors answered, per accessor
    set_a,           \* one descriptor set
    set_b,           \* another descriptor set, or the same one
    compared,        \* the answer of set_a == set_b, once asked
    hashes,          \* the hashes of set_a and set_b, once computed
    handle_type,     \* an ExternalSemaphoreHandleType
    rhs_handle_type, \* a second one, the right operand of |
    flags,           \* handle_type as native flags, once converted
    from_flags,      \* those flags converted back, once converted
    union,           \* handle_type | rhs_handle_type, once computed
    rhs_flags,       \* rhs_handle_type as native flags, once converted
    union_flags,     \* the union as native flags, once converted
    export_info,     \* ExportSemaphoreCreateInfo given to create_semaphore
    get_handle_info, \* SemaphoreGetWin32HandleInfoKHR given to the query
    built,           \* the native pipeline handles of the GraphicsPipelines built
    strong_count,    \* per pipeline: shared references alive
    peak_count,      \* per pipeline: most shared references alive at once
    destroy_pipeline_calls,  \* per handle: destroy_pipeline calls
    last_build,      \* the last build of a GraphicsPipeline: inputs and result
    set_layout,      \* the target layout: what each binding declares
    cur_binding,     \* the builder's cursor: bindings filled so far
    added,           \* the resources the builder accepted, in order
    poisoned,        \* the builder returned an error before
    finished,        \* build was called: the builder is used up
    builder_op       \* the last builder call, the state it met, its result

allocVars == <<memory_types, request, enabled_extensions, filter_calls,
              generic_calls, native_allocs, callee_results, result>>

descVars == <<properties, bindings, dynamic_offsets, with_offsets>>

semVars == <<semaphore_pool, exportable_semaphore_pool, semaphores, created,
             exportable, created_by, destroy_count, last_op>>

concVars == <<pc, lock, local>>

accessVars == <<allocation, observed>>

eqVars == <<set_a, set_b, compared, hashes>>

handleTypeVars == <<handle_type, rhs_handle_type, flags, from_flags, union,
                    rhs_flags, union_flags, export_info, get_handle_info>>

pipelineVars == <<built, strong_count, peak_count, destroy_pipeline_calls,
                 last_build>>

builderVars == <<set_layout, cur_binding, added, poisoned, finished,
                 builder_op>>

vars == <<allocVars, descVars, semVars, concVars, accessVars, eqVars,
          handleTypeVars, pipelineVars, builderVars>>

\* What a step of one part leaves alone.
exceptAlloc == <<descVars, semVars, concVars, accessVars, eqVars,
                 handleTypeVars, pipelineVars, builderVars>>

exceptDesc == <<allocVars, semVars, concVars, accessVars, eqVars,
                handleTypeVars, pipelineVars, builderVars>>

exceptSem == <<allocVars, descVars, accessVars, eqVars, handleTypeVars,
               pipelineVars, builderVars>>

exceptAccess == <<allocVars, descVars, semVars, concVars, eqVars,
                  handleTypeVars, pipelineVars, builderVars>>

exceptEq == <<allocVars, descVars, semVars, concVars, accessVars,
              handleTypeVars, pipelineVars, builderVars>>

exceptHandleType == <<allocVars, descVars, semVars, concVars, accessVars,
                      eqVars, pipelineVars, builderVars>>

exceptPipeline == <<allocVars, descVars, semVars, concVars, accessVars,
                    eqVars, handleTypeVars, builderVars>>

exceptBuilder == <<allocVars, descVars, semVars, concVars, accessVars,
                   eqVars, handleTypeVars, pipelineVars>>

(***************************************************************************)
(* Bounds                                                                  *)
(***************************************************************************)
\* Largest number of memory types a modelled device reports.
MaxTypes == 2

\* Longest binding list of a modelled descriptor-set layout.
MaxBindings == 3

\* Longest offset sequence passed to DescriptorSetWithOffsets::new.
MaxOffsets == 3

\* Native semaphores a behaviour may create.
MaxSemaphores == 3

\* Threads that call from_pool, alloc and drop on the one device.
MaxThreads == 2

\* Native semaphores a behaviour of several threads may create.
MaxThreadSemaphores == 2

\* DeviceMemory objects an allocation may point at.
MaxMemories == 2

\* Native descriptor-set handle values, and devices that own sets.
MaxSetHandles == 2

MaxDevices == 2

\* GraphicsPipelines built, and shared references to one of them.
MaxPipelines == 2

MaxRefs == 3

(***************************************************************************)
(* memory/pool/mod.rs                                                      *)
(***************************************************************************)
MAX_POOL_ALLOC == 256 * 1024 * 1024

AllocFromRequirementsFilter == {"Preferred", "Allowed", "Forbidden"}

MappingRequirement == {"Map", "DoNotMap"}

AllocLayout == {"Linear", "Optimal"}

\* DedicatedAlloc: None, or the buffer or image the memory is dedicated to.
DedicatedAlloc == {"None", "Buffer", "Image"}

\* What a fallible allocation of the native layer or of the pool answers.
DeviceMemoryAllocError == {"OutOfHostMemory", "OutOfDeviceMemory"}

AllocOutcome == {"Ok"} \cup DeviceMemoryAllocError

\* The memory-type lists a device can report: ids 0..n-1 in ascending order,
\* each type host-visible or not.
MemoryTypeLists ==
    UNION { { [i \in 1..n |-> [id |-> i - 1, host_visible |-> hv[i]]] :
              hv \in [1..n -> BOOLEAN] } : n \in 1..MaxTypes }

\* requirements.size: around the pool ceiling.
DeviceSizes == {1, MAX_POOL_ALLOC, MAX_POOL_ALLOC + 1}

Alignments == {1, 256}

\* requirements.memory_type_bits: every mask over the device's possible ids
\* and one bit past them.
TypeBits == 0..(2 ^ (MaxTypes + 1) - 1)

MemoryRequirements ==
    [size : DeviceSizes, alignment : Alignments,
     memory_type_bits : TypeBits, prefer_dedicated : BOOLEAN]

\* The caller's filter closure, as its answer for each type id.
Filters == [0..(MaxTypes - 1) -> AllocFromRequirementsFilter]

Requests ==
    [requirements : MemoryRequirements, layout : AllocLayout,
     map : MappingRequirement, dedicated : DedicatedAlloc, filter : Filters]

NoType == [id |-> -1, host_visible |-> FALSE]

Min(S) == CHOOSE x \in S : \A y \in S : x <= y

\* (requirements.memory_type_bits & (1 << t.id())) != 0
type_bit_set(bits, id) == (bits \div (2 ^ id)) % 2 = 1

\* Mutant: the host-visibility test left out.
inner_filter_any_memory(map, filter, ty) == filter[ty.id]

\* Mutant: the host-visibility test the wrong way round.
inner_filter_inverted(map, filter, ty) ==
    IF map = "Map" /\ ty.host_visible THEN "Forbidden" ELSE filter[ty.id]

\* The closure wrapping the caller's filter.
inner_filter(map, filter, ty) ==
    IF map = "Map" /\ ~ty.host_visible THEN "Forbidden" ELSE filter[ty.id]

\* Mutant: the two loops chained the other way round.
loop_chain_allowed_first(types) ==
    [i \in 1..(2 * Len(types)) |->
        IF i <= Len(types) THEN <<types[i], "Allowed">>
        ELSE <<types[i - Len(types)], "Preferred">>]

\* first_loop.chain(second_loop): every type tagged Preferred, then every
\* type tagged Allowed.
loop_chain(types) ==
    [i \in 1..(2 * Len(types)) |->
        IF i <= Len(types) THEN <<types[i], "Preferred">>
        ELSE <<types[i - Len(types)], "Allowed">>]

\* Mutant: the caller's filter asked first, host visibility afterwards.
inner_filter_calls_always(map, ty) == TRUE

\* Whether the closure gets as far as filter(ty): not when it has already
\* returned Forbidden.
inner_filter_calls(map, ty) == ~(map = "Map" /\ ~ty.host_visible)

\* The type ids the caller's filter is invoked with, in order. The chain is
\* lazy: next() pulls elements until the first one that passes both
\* filter stages; an element reaches the closure only if its bit is set.
filter_invocations(types, requirements, filter, map) ==
    LET c == loop_chain(types)
        hits == { i \in 1..Len(c) :
                    /\ type_bit_set(requirements.memory_type_bits, c[i][1].id)
                    /\ inner_filter(map, filter, c[i][1]) = c[i][2] }
        last == IF hits = {} THEN Len(c) ELSE Min(hits)
        asked(e) == /\ type_bit_set(requirements.memory_type_bits, e[1].id)
                    /\ inner_filter_calls(map, e[1])
        pulled == SelectSeq(SubSeq(c, 1, last), asked)
    IN  [i \in 1..Len(pulled) |-> pulled[i][1].id]

\* Mutant: with no match, the first device type instead of the panic.
choose_or_first_type(types, requirements, filter, map) ==
    LET c == loop_chain(types)
        hits == { i \in 1..Len(c) :
                    /\ type_bit_set(requirements.memory_type_bits, c[i][1].id)
                    /\ inner_filter(map, filter, c[i][1]) = c[i][2] }
    IN  IF hits = {} THEN types[1] ELSE c[Min(hits)][1]

\* The first element of the chain that passes both filters; NoType stands
\* for the failed expect(), a panic.
choose_allocation_memory_type(types, requirements, filter, map) ==
    LET c == loop_chain(types)
        hits == { i \in 1..Len(c) :
                    /\ type_bit_set(requirements.memory_type_bits, c[i][1].id)
                    /\ inner_filter(map, filter, c[i][1]) = c[i][2] }
    IN  IF hits = {} THEN NoType ELSE c[Min(hits)][1]

\* Mutant: the size test left out.
redirect_ignoring_size(requirements) == ~requirements.prefer_dedicated

\* Mutant: the ceiling itself sent to the dedicated path.
redirect_below_ceiling(requirements) ==
    ~requirements.prefer_dedicated /\ requirements.size < MAX_POOL_ALLOC

\* The test that sends the request to self.alloc_generic.
redirect_to_generic(requirements) ==
    ~requirements.prefer_dedicated /\ requirements.size <= MAX_POOL_ALLOC

\* Mutant: the hint not looked at.
hint_never_none(dedicated) == FALSE

\* if let DedicatedAlloc::None = dedicated
hint_is_none(dedicated) == dedicated = "None"

\* Mutant: the Map arm taken for the DoNotMap arm.
dedicated_call_never_mapped(map) ==
    [fn |-> "dedicated_alloc", variant |-> "Dedicated"]

\* The native constructor and the variant of the dedicated path.
dedicated_call(map) ==
    IF map = "Map"
    THEN [fn |-> "dedicated_alloc_and_map", variant |-> "DedicatedMapped"]
    ELSE [fn |-> "dedicated_alloc", variant |-> "Dedicated"]

Pending == [tag |-> "pending"]

Panic(msg) == [tag |-> "panic", msg |-> msg]

\* Mutant: the callee's result unwrapped instead of propagated.
question_mark_unwrap(out, ok) ==
    IF out = "Ok" THEN ok ELSE Panic("unwrap on an Err value")

\* The ? after each callee: Ok goes on to the return value, Err(e) returns
\* Err(e) from alloc_from_requirements at once.
question_mark(out, ok) ==
    IF out = "Ok" THEN ok ELSE [tag |-> "Err", err |-> out]

\* self.alloc_generic(mem_ty, size, alignment, layout, map)?; Ok(alloc.into())
AllocGenericPath(ty) ==
    \E out \in AllocOutcome :
        /\ callee_results' = Append(callee_results, out)
        /\ generic_calls' = Append(generic_calls,
               [ty |-> ty, size |-> request.requirements.size,
                alignment |-> request.requirements.alignment,
                layout |-> request.layout, map |-> request.map])
        /\ native_allocs' = native_allocs
        /\ result' = question_mark(out,
                          [tag |-> "Ok", variant |-> "Generic", ty |-> ty,
                           size |-> request.requirements.size])

\* DeviceMemory::dedicated_alloc[_and_map](device, mem_ty, size, dedicated)?
DedicatedPath(ty) ==
    \E out \in AllocOutcome :
        LET dc == dedicated_call(request.map) IN
        /\ callee_results' = Append(callee_results, out)
        /\ native_allocs' = Append(native_allocs,
               [fn |-> dc.fn, ty |-> ty, size |-> request.requirements.size,
                dedicated |-> request.dedicated])
        /\ generic_calls' = generic_calls
        /\ result' = question_mark(out,
                          [tag |-> "Ok", variant |-> dc.variant, ty |-> ty,
                           size |-> request.requirements.size])

\* device.enabled_extensions(), as far as the allocator reads it.
Extensions == [khr_external_memory : BOOLEAN, khr_external_memory_fd : BOOLEAN]

NoExtensions ==
    [khr_external_memory |-> FALSE, khr_external_memory_fd |-> FALSE]

\* MemoryPool::alloc_from_requirements
AllocFromRequirements ==
    /\ result = Pending
    /\ filter_calls' = filter_invocations(memory_types, request.requirements,
                                          request.filter, request.map)
    /\ LET mem_ty == choose_allocation_memory_type(
                         memory_types, request.requirements,
                         request.filter, request.map)
       IN  IF mem_ty = NoType
           THEN /\ result' = Panic("no memory type to allocate from")
                /\ UNCHANGED <<generic_calls, native_allocs, callee_results>>
           ELSE IF redirect_to_generic(request.requirements)
           THEN AllocGenericPath(mem_ty)
           ELSE IF hint_is_none(request.dedicated)
           THEN AllocGenericPath(mem_ty)
           ELSE DedicatedPath(mem_ty)
    /\ UNCHANGED <<memory_types, request, enabled_extensions>>
    /\ UNCHANGED exceptAlloc

\* Mutant: the Map arm taken for the DoNotMap arm.
exportable_call_never_mapped(map) ==
    [fn |-> "dedicated_alloc_with_exportable_fd", variant |-> "Dedicated"]

\* The native constructor and the variant of each arm of match map.
exportable_call(map) ==
    IF map = "Map"
    THEN [fn |-> "dedicated_alloc_and_map_with_exportable_fd",
          variant |-> "DedicatedMapped"]
    ELSE [fn |-> "dedicated_alloc_with_exportable_fd", variant |-> "Dedicated"]

\* alloc_dedicated_with_exportable_fd: two assertions, the choice of the
\* memory type, then the native allocation.
AllocDedicatedWithExportableFd ==
    /\ result = Pending
    /\ IF ~enabled_extensions.khr_external_memory_fd
       THEN /\ result' = Panic("assertion failed: khr_external_memory_fd")
            /\ UNCHANGED <<filter_calls, generic_calls, native_allocs,
                           callee_results>>
       ELSE IF ~enabled_extensions.khr_external_memory
       THEN /\ result' = Panic("assertion failed: khr_external_memory")
            /\ UNCHANGED <<filter_calls, generic_calls, native_allocs,
                           callee_results>>
       ELSE LET mem_ty == choose_allocation_memory_type(
                              memory_types, request.requirements,
                              request.filter, request.map)
                ec == exportable_call(request.map)
            IN  /\ filter_calls' =
                       filter_invocations(memory_types, request.requirements,
                                          request.filter, request.map)
                /\ IF mem_ty = NoType
                   THEN /\ result' = Panic("no memory type to allocate from")
                        /\ UNCHANGED <<generic_calls, native_allocs,
                                       callee_results>>
                   ELSE \E out \in AllocOutcome :
                        /\ callee_results' = Append(callee_results, out)
                        /\ native_allocs' = Append(native_allocs,
                               [fn |-> ec.fn, ty |-> mem_ty,
                                size |-> request.requirements.size,
                                dedicated |-> request.dedicated])
                        /\ generic_calls' = generic_calls
                        /\ result' = question_mark(out,
                               [tag |-> "Ok", variant |-> ec.variant,
                                ty |-> mem_ty,
                                size |-> request.requirements.size])
    /\ UNCHANGED <<memory_types, request, enabled_extensions>>
    /\ UNCHANGED exceptAlloc

(***************************************************************************)
(* descriptor_set/mod.rs                                                   *)
(***************************************************************************)
\* A slot of layout.desc().bindings(): None for an empty slot, otherwise the
\* DescriptorDescTy of its descriptor. UniformBuffer stands for every type
\* that is neither of the two dynamic buffer types.
None == "None"

DescriptorDescTy == {"UniformBuffer", "UniformBufferDynamic", "StorageBufferDynamic"}

BindingSlots == {None} \cup DescriptorDescTy

SeqsUpTo(S, n) == UNION { [1..k -> S] : k \in 0..n }

BindingLists == SeqsUpTo(BindingSlots, MaxBindings)

\* min_uniform_buffer_offset_alignment and min_storage_buffer_offset_alignment
\* (powers of two, small enough that the cast to u32 keeps them).
OffsetAlignments == {16, 64}

PhysicalDeviceProperties ==
    [min_uniform_buffer_offset_alignment : OffsetAlignments,
     min_storage_buffer_offset_alignment : OffsetAlignments]

\* u32 offsets: aligned to both, to 16 only, to neither.
OffsetValues == {0, 16, 8}

OffsetLists == SeqsUpTo(OffsetValues, MaxOffsets)

\* The loop over the bindings from slot i on, dynamic_offset_index being idx:
\* the panic it stops at, if any, and the index it ends with.
RECURSIVE walk_bindings(_, _, _, _, _)
walk_bindings(slots, offsets, props, i, idx) ==
    IF i > Len(slots) THEN [panic |-> "", index |-> idx]
    ELSE IF slots[i] = None
    THEN [panic |-> "unwrap on a None value", index |-> idx]
    ELSE IF slots[i] = "StorageBufferDynamic"
    THEN IF /\ Len(offsets) > idx
            /\ offsets[idx + 1] % props.min_storage_buffer_offset_alignment # 0
         THEN [panic |-> "Dynamic storage buffer offset must be a multiple of min_storage_buffer_offset_alignment",
               index |-> idx]
         ELSE walk_bindings(slots, offsets, props, i + 1, idx + 1)
    ELSE IF slots[i] = "UniformBufferDynamic"
    THEN IF /\ Len(offsets) > idx
            /\ offsets[idx + 1] % props.min_uniform_buffer_offset_alignment # 0
         THEN [panic |-> "Dynamic uniform buffer offset must be a multiple of min_uniform_buffer_offset_alignment",
               index |-> idx]
         ELSE walk_bindings(slots, offsets, props, i + 1, idx + 1)
    ELSE walk_bindings(slots, offsets, props, i + 1, idx)

\* DescriptorSetWithOffsets::new: the value built, or the panic.
descriptor_set_with_offsets_new(slots, offsets, props) ==
    LET w == walk_bindings(slots, offsets, props, 1, 0) IN
    IF w.panic # "" THEN Panic(w.panic)
    ELSE IF Len(offsets) < w.index THEN Panic("Too few dynamic offsets")
    ELSE IF Len(offsets) > w.index THEN Panic("Too many dynamic offsets")
    ELSE [tag |-> "Ok", dynamic_offsets |-> offsets]

DescriptorSetWithOffsetsNew ==
    /\ with_offsets = Pending
    /\ with_offsets' =
           descriptor_set_with_offsets_new(bindings, dynamic_offsets, properties)
    /\ UNCHANGED <<properties, bindings, dynamic_offsets>>
    /\ UNCHANGED exceptDesc

(***************************************************************************)
(* sync/semaphore.rs                                                       *)
(***************************************************************************)
Handles == 1..MaxSemaphores

\* The constructors; recorded with each live Semaphore.
Constructors == {"from_pool", "from_exportable_pool", "alloc"}

\* A Semaphore value: its fields semaphore and must_put_in_pool (the device is
\* the one device of the model), and the constructor that returned it.
Semaphore(raw_sem, must_put_in_pool, via) ==
    [semaphore |-> raw_sem, must_put_in_pool |-> must_put_in_pool, via |-> via]

Op(op, res, raw_sem, flag) ==
    [op |-> op, res |-> res, semaphore |-> raw_sem, must_put_in_pool |-> flag]

\* Mutant: the newest handle read but left in the list.
vec_pop_peek(pool) ==
    [some |-> pool # <<>>,
     raw_sem |-> IF pool = <<>> THEN 0 ELSE pool[Len(pool)],
     rest |-> pool]

\* Mutant: the oldest handle taken instead of the newest.
vec_pop_front(pool) ==
    [some |-> pool # <<>>,
     raw_sem |-> IF pool = <<>> THEN 0 ELSE pool[1],
     rest |-> IF pool = <<>> THEN <<>> ELSE SubSeq(pool, 2, Len(pool))]

\* Vec::pop: the last element, if any, and the vector left.
vec_pop(pool) ==
    [some |-> pool # <<>>,
     raw_sem |-> IF pool = <<>> THEN 0 ELSE pool[Len(pool)],
     rest |-> IF pool = <<>> THEN <<>> ELSE SubSeq(pool, 1, Len(pool) - 1)]

\* Mutant: the result of create_semaphore not checked, the output read
\* whether or not it was written.
CreateSemaphoreUnchecked(op, must_put_in_pool, with_export_info) ==
    \/ /\ created < MaxSemaphores
       /\ created' = created + 1
       /\ exportable' = IF with_export_info
                        THEN exportable \cup {created + 1} ELSE exportable
       /\ created_by' = [created_by EXCEPT ![created + 1] = op]
       /\ semaphores' = semaphores \cup
              {Semaphore(created + 1, must_put_in_pool, op)}
       /\ last_op' = Op(op, "Ok", created + 1, must_put_in_pool)
    \/ /\ \E e \in {"OutOfHostMemory", "OutOfDeviceMemory"} :
              last_op' = Op(op, e, 0, must_put_in_pool)
       /\ semaphores' = semaphores \cup {Semaphore(0, must_put_in_pool, op)}
       /\ UNCHANGED <<created, exportable, created_by>>

\* create_semaphore through check_errors: a fresh handle, or an OomError and
\* no Semaphore. Shared by alloc_impl and alloc_exportable_impl.
CreateSemaphore(op, must_put_in_pool, with_export_info) ==
    \/ /\ created < MaxSemaphores
       /\ created' = created + 1
       /\ exportable' = IF with_export_info
                        THEN exportable \cup {created + 1} ELSE exportable
       /\ created_by' = [created_by EXCEPT ![created + 1] = op]
       /\ semaphores' = semaphores \cup
              {Semaphore(created + 1, must_put_in_pool, op)}
       /\ last_op' = Op(op, "Ok", created + 1, must_put_in_pool)
    \/ /\ \E e \in {"OutOfHostMemory", "OutOfDeviceMemory"} :
              last_op' = Op(op, e, 0, must_put_in_pool)
       /\ UNCHANGED <<created, exportable, created_by, semaphores>>

\* Semaphore::from_pool
FromPool ==
    LET maybe_raw_sem == vec_pop(semaphore_pool) IN
    /\ semaphore_pool' = maybe_raw_sem.rest
    /\ IF maybe_raw_sem.some
       THEN /\ semaphores' = semaphores \cup
                   {Semaphore(maybe_raw_sem.raw_sem, TRUE, "from_pool")}
            /\ last_op' = Op("from_pool", "Ok", maybe_raw_sem.raw_sem, TRUE)
            /\ UNCHANGED <<created, exportable, created_by>>
       ELSE CreateSemaphore("from_pool", TRUE, FALSE)
    /\ UNCHANGED <<exportable_semaphore_pool, destroy_count>>
    /\ UNCHANGED concVars
    /\ UNCHANGED exceptSem

\* Semaphore::from_exportable_pool (windows builds with the win32 feature)
FromExportablePool ==
    LET maybe_raw_sem == vec_pop(exportable_semaphore_pool) IN
    /\ exportable_semaphore_pool' = maybe_raw_sem.rest
    /\ IF maybe_raw_sem.some
       THEN /\ semaphores' = semaphores \cup
                   {Semaphore(maybe_raw_sem.raw_sem, TRUE, "from_exportable_pool")}
            /\ last_op' = Op("from_exportable_pool", "Ok", maybe_raw_sem.raw_sem, TRUE)
            /\ UNCHANGED <<created, exportable, created_by>>
       ELSE CreateSemaphore("from_exportable_pool", TRUE, TRUE)
    /\ UNCHANGED <<semaphore_pool, destroy_count>>
    /\ UNCHANGED concVars
    /\ UNCHANGED exceptSem

\* Semaphore::alloc
Alloc ==
    /\ CreateSemaphore("alloc", FALSE, FALSE)
    /\ UNCHANGED <<semaphore_pool, exportable_semaphore_pool, destroy_count>>
    /\ UNCHANGED concVars
    /\ UNCHANGED exceptSem

\* Mutant: every handle destroyed, whatever the flag.
drop_never_pools(sem) == FALSE

\* Mutant: every handle kept, whatever the flag.
drop_always_pools(sem) == TRUE

\* The test of Drop::drop: the handle goes to the pool, or is destroyed.
drop_puts_in_pool(sem) == sem.must_put_in_pool

\* Drop for Semaphore
Drop(sem) ==
    /\ sem \in semaphores
    /\ semaphores' = semaphores \ {sem}
    /\ IF drop_puts_in_pool(sem)
       THEN /\ semaphore_pool' = Append(semaphore_pool, sem.semaphore)
            /\ UNCHANGED destroy_count
       ELSE /\ destroy_count' =
                   [destroy_count EXCEPT ![sem.semaphore] = @ + 1]
            /\ UNCHANGED semaphore_pool
    /\ last_op' = Op("drop", "Ok", sem.semaphore, sem.must_put_in_pool)
    /\ UNCHANGED <<exportable_semaphore_pool, created, exportable, created_by>>
    /\ UNCHANGED concVars
    /\ UNCHANGED exceptSem

(***************************************************************************)
(* sync/semaphore.rs, several threads: from_pool and drop statement by      *)
(* statement, with the mutex around the pool                               *)
(***************************************************************************)
Threads == 1..MaxThreads

NoThread == 0

NoSemaphore == Semaphore(0, FALSE, "alloc")

\* Mutant: the guard bound to a name that lives to the end of the function.
guard_kept(holder) == holder

\* The MutexGuard of lock().unwrap().pop() and lock().unwrap().push(raw_sem)
\* is a temporary: it is dropped when the statement ends.
guard_at_statement_end(holder) == NoThread

Goto(t, label) == pc' = [pc EXCEPT ![t] = label]

\* A thread calls Semaphore::from_pool and reaches lock().
BeginFromPool(t) ==
    /\ pc[t] = "idle"
    /\ Goto(t, "from_pool_lock")
    /\ UNCHANGED <<lock, local, semVars>>
    /\ UNCHANGED exceptSem

\* semaphore_pool().lock() returns once the mutex is free.
FromPoolLock(t) ==
    /\ pc[t] = "from_pool_lock"
    /\ lock = NoThread
    /\ lock' = t
    /\ Goto(t, "from_pool_pop")
    /\ UNCHANGED <<local, semVars>>
    /\ UNCHANGED exceptSem

\* .pop(), the end of the statement, and the Some arm of the match.
FromPoolPop(t) ==
    LET maybe_raw_sem == vec_pop(semaphore_pool) IN
    /\ pc[t] = "from_pool_pop"
    /\ lock = t
    /\ semaphore_pool' = maybe_raw_sem.rest
    /\ lock' = guard_at_statement_end(t)
    /\ IF maybe_raw_sem.some
       THEN /\ semaphores' = semaphores \cup
                   {Semaphore(maybe_raw_sem.raw_sem, TRUE, "from_pool")}
            /\ last_op' = Op("from_pool", "Ok", maybe_raw_sem.raw_sem, TRUE)
            /\ Goto(t, "idle")
       ELSE /\ Goto(t, "from_pool_alloc")
            /\ UNCHANGED <<semaphores, last_op>>
    /\ UNCHANGED <<local, exportable_semaphore_pool, created, exportable, created_by,
                   destroy_count>>
    /\ UNCHANGED exceptSem

\* The None arm: Semaphore::alloc_impl(device, true).
FromPoolAlloc(t) ==
    /\ pc[t] = "from_pool_alloc"
    /\ CreateSemaphore("from_pool", TRUE, FALSE)
    /\ created' <= MaxThreadSemaphores
    /\ Goto(t, "idle")
    /\ UNCHANGED <<lock, local, semaphore_pool, exportable_semaphore_pool,
                   destroy_count>>
    /\ UNCHANGED exceptSem

\* A thread calls Semaphore::alloc.
ThreadAlloc(t) ==
    /\ pc[t] = "idle"
    /\ CreateSemaphore("alloc", FALSE, FALSE)
    /\ created' <= MaxThreadSemaphores
    /\ UNCHANGED <<pc, lock, local, semaphore_pool, exportable_semaphore_pool,
                   destroy_count>>
    /\ UNCHANGED exceptSem

\* A Semaphore goes out of scope in a thread: drop reads must_put_in_pool.
BeginDrop(t, sem) ==
    /\ pc[t] = "idle"
    /\ sem \in semaphores
    /\ semaphores' = semaphores \ {sem}
    /\ local' = [local EXCEPT ![t] = sem]
    /\ Goto(t, IF drop_puts_in_pool(sem) THEN "drop_lock" ELSE "drop_destroy")
    /\ UNCHANGED <<lock, semaphore_pool, exportable_semaphore_pool, created,
                   exportable, created_by, destroy_count, last_op>>
    /\ UNCHANGED exceptSem

DropLock(t) ==
    /\ pc[t] = "drop_lock"
    /\ lock = NoThread
    /\ lock' = t
    /\ Goto(t, "drop_push")
    /\ UNCHANGED <<local, semVars>>
    /\ UNCHANGED exceptSem

\* .push(raw_sem) and the end of the statement.
DropPush(t) ==
    /\ pc[t] = "drop_push"
    /\ lock = t
    /\ semaphore_pool' = Append(semaphore_pool, local[t].semaphore)
    /\ lock' = guard_at_statement_end(t)
    /\ last_op' = Op("drop", "Ok", local[t].semaphore, TRUE)
    /\ local' = [local EXCEPT ![t] = NoSemaphore]
    /\ Goto(t, "idle")
    /\ UNCHANGED <<exportable_semaphore_pool, semaphores, created, exportable, created_by,
                   destroy_count>>
    /\ UNCHANGED exceptSem

\* The else arm: destroy_semaphore.
DropDestroy(t) ==
    /\ pc[t] = "drop_destroy"
    /\ destroy_count' = [destroy_count EXCEPT ![local[t].semaphore] = @ + 1]
    /\ last_op' = Op("drop", "Ok", local[t].semaphore, FALSE)
    /\ local' = [local EXCEPT ![t] = NoSemaphore]
    /\ Goto(t, "idle")
    /\ UNCHANGED <<lock, semaphore_pool, exportable_semaphore_pool, semaphores,
                   created, exportable, created_by>>
    /\ UNCHANGED exceptSem

\* The steps that wait for the mutex.
Acquire(t) == FromPoolLock(t) \/ DropLock(t)

\* The steps of a call under way that wait for nothing.
Continue(t) ==
    FromPoolPop(t) \/ FromPoolAlloc(t) \/ DropPush(t) \/ DropDestroy(t)

IdleThreads ==
    /\ pc = [t \in Threads |-> "idle"]
    /\ lock = NoThread
    /\ local = [t \in Threads |-> NoSemaphore]

(***************************************************************************)
(* memory/pool/mod.rs: PotentialDedicatedAllocation as a MemoryPoolAlloc    *)
(***************************************************************************)
\* DeviceMemory objects told apart by identity.
Memories == 1..MaxMemories

\* Offsets a pool allocation may sit at inside its memory block.
PoolOffsets == {0, 256, 4096}

Some(x) == [some |-> TRUE, value |-> x]

NoValue == [some |-> FALSE]

\* MappedDeviceMemory wraps its DeviceMemory; as_ref() hands it out.
MappedDeviceMemory(mem) == [memory |-> mem]

as_ref(mapped) == mapped.memory

\* Any MemoryPoolAlloc a pool may hand out: what its accessors answer.
PoolAllocs ==
    [offset : PoolOffsets,
     memory : Memories,
     mapped_memory : {NoValue} \cup
                     {Some(MappedDeviceMemory(m)) : m \in Memories}]

\* enum PotentialDedicatedAllocation
PotentialDedicatedAllocation ==
    [variant : {"Generic"}, alloc : PoolAllocs]
    \cup [variant : {"Dedicated"}, mem : Memories]
    \cup [variant : {"DedicatedMapped"},
          mem : {MappedDeviceMemory(m) : m \in Memories}]

\* Mutant: a dedicated allocation never reports its mapping.
mapped_memory_only_generic(a) ==
    IF a.variant = "Generic" THEN a.alloc.mapped_memory ELSE NoValue

mapped_memory(a) ==
    CASE a.variant = "Generic" -> a.alloc.mapped_memory
      [] a.variant = "Dedicated" -> NoValue
      [] a.variant = "DedicatedMapped" -> Some(a.mem)

memory(a) ==
    CASE a.variant = "Generic" -> a.alloc.memory
      [] a.variant = "Dedicated" -> a.mem
      [] a.variant = "DedicatedMapped" -> as_ref(a.mem)

offset(a) ==
    CASE a.variant = "Generic" -> a.alloc.offset
      [] a.variant = "Dedicated" -> 0
      [] a.variant = "DedicatedMapped" -> 0

Accessors == {"mapped_memory", "memory", "offset"}

\* A caller asks the allocation one of its three questions.
CallMappedMemory ==
    /\ observed["mapped_memory"] = <<>>
    /\ observed' = [observed EXCEPT
                       !["mapped_memory"] = <<mapped_memory(allocation)>>]
    /\ UNCHANGED allocation
    /\ UNCHANGED exceptAccess

CallMemory ==
    /\ observed["memory"] = <<>>
    /\ observed' = [observed EXCEPT !["memory"] = <<memory(allocation)>>]
    /\ UNCHANGED allocation
    /\ UNCHANGED exceptAccess

CallOffset ==
    /\ observed["offset"] = <<>>
    /\ observed' = [observed EXCEPT !["offset"] = <<offset(allocation)>>]
    /\ UNCHANGED allocation
    /\ UNCHANGED exceptAccess

IdleAccess ==
    /\ allocation = [variant |-> "Dedicated", mem |-> 1]
    /\ observed = [f \in Accessors |-> <<>>]

(***************************************************************************)
(* descriptor_set/mod.rs: PartialEq and Hash for dyn DescriptorSet         *)
(***************************************************************************)
\* Values of the native descriptor-set handle.
SetHandles == 1..MaxSetHandles

\* Devices, told apart by identity.
Devices == 1..MaxDevices

\* What else a descriptor set carries: its layout and its bound resources.
SetLayouts == {"layout_x", "layout_y"}

SetContents == {"resources_p", "resources_q"}

\* The descriptor sets under comparison: inner().internal_object(),
\* device(), layout() and the bound buffers and images.
DescriptorSets ==
    [internal_object : SetHandles, device : Devices,
     layout : SetLayouts, contents : SetContents]

\* A Hasher: one byte of state, every write folded into it.
hasher_write(state, x) == (state * 31 + x) % 256

\* Mutant: the handle alone decides.
eq_internal_object_only(self, other) ==
    self.internal_object = other.internal_object

\* PartialEq::eq
eq(self, other) ==
    /\ self.internal_object = other.internal_object
    /\ self.device = other.device

\* Hash::hash
hash(self, state) ==
    hasher_write(hasher_write(state, self.internal_object), self.device)

\* set_a == set_b
CompareSets ==
    /\ compared = <<>>
    /\ compared' = <<eq(set_a, set_b)>>
    /\ UNCHANGED <<set_a, set_b, hashes>>
    /\ UNCHANGED exceptEq

\* Both sets hashed with hashers in the same starting state.
HashSets ==
    /\ hashes = <<>>
    /\ \E state \in {0, 7} :
           hashes' = <<hash(set_a, state), hash(set_b, state)>>
    /\ UNCHANGED <<set_a, set_b, compared>>
    /\ UNCHANGED exceptEq

IdleEq ==
    /\ set_a = [internal_object |-> 1, device |-> 1,
                layout |-> "layout_x", contents |-> "resources_p"]
    /\ set_b = set_a
    /\ compared = <<>>
    /\ hashes = <<>>

(***************************************************************************)
(* sync/external_semaphore_handle_type.rs                                  *)
(***************************************************************************)
\* ash::vk::ExternalSemaphoreHandleTypeFlags, the bits of the native mask.
OPAQUE_FD == 1

OPAQUE_WIN32 == 2

OPAQUE_WIN32_KMT == 4

D3D12_FENCE == 8

SYNC_FD == 16

\* ExternalSemaphoreHandleTypeFlags::empty()
empty == 0

\* result |= BIT and val & BIT, for a mask BIT of one bit.
flags_or(val, BIT) == IF (val \div BIT) % 2 = 1 THEN val ELSE val + BIT

flags_and(val, BIT) == IF (val \div BIT) % 2 = 1 THEN BIT ELSE empty

is_empty(val) == val = empty

Fields ==
    {"opaque_fd", "opaque_win32", "opaque_win32_kmt", "d3d12_fence", "sync_fd"}

\* struct ExternalSemaphoreHandleType: five booleans.
ExternalSemaphoreHandleType == [Fields -> BOOLEAN]

none == [f \in Fields |-> FALSE]

posix == [none EXCEPT !["opaque_fd"] = TRUE]

win32 == [none EXCEPT !["opaque_win32"] = TRUE]

\* Mutant: d3d12_fence converted to the bit of sync_fd.
flags_from_handle_type_shared_bit(val) ==
    LET r0 == empty
        r1 == IF val["opaque_fd"] THEN flags_or(r0, OPAQUE_FD) ELSE r0
        r2 == IF val["opaque_win32"] THEN flags_or(r1, OPAQUE_WIN32) ELSE r1
        r3 == IF val["opaque_win32_kmt"]
              THEN flags_or(r2, OPAQUE_WIN32_KMT) ELSE r2
        r4 == IF val["d3d12_fence"] THEN flags_or(r3, SYNC_FD) ELSE r3
        r5 == IF val["sync_fd"] THEN flags_or(r4, SYNC_FD) ELSE r4
    IN  r5

\* impl From<ExternalSemaphoreHandleType> for ExternalSemaphoreHandleTypeFlags
flags_from_handle_type(val) ==
    LET r0 == empty
        r1 == IF val["opaque_fd"] THEN flags_or(r0, OPAQUE_FD) ELSE r0
        r2 == IF val["opaque_win32"] THEN flags_or(r1, OPAQUE_WIN32) ELSE r1
        r3 == IF val["opaque_win32_kmt"]
              THEN flags_or(r2, OPAQUE_WIN32_KMT) ELSE r2
        r4 == IF val["d3d12_fence"] THEN flags_or(r3, D3D12_FENCE) ELSE r3
        r5 == IF val["sync_fd"] THEN flags_or(r4, SYNC_FD) ELSE r4
    IN  r5

\* Mutant: sync_fd read from the bit of d3d12_fence.
handle_type_from_flags_wrong_bit(val) ==
    [f \in Fields |->
        CASE f = "opaque_fd" -> ~is_empty(flags_and(val, OPAQUE_FD))
          [] f = "opaque_win32" -> ~is_empty(flags_and(val, OPAQUE_WIN32))
          [] f = "opaque_win32_kmt" -> ~is_empty(flags_and(val, OPAQUE_WIN32_KMT))
          [] f = "d3d12_fence" -> ~is_empty(flags_and(val, D3D12_FENCE))
          [] f = "sync_fd" -> ~is_empty(flags_and(val, D3D12_FENCE))]

\* impl From<ExternalSemaphoreHandleTypeFlags> for ExternalSemaphoreHandleType
handle_type_from_flags(val) ==
    [f \in Fields |->
        CASE f = "opaque_fd" -> ~is_empty(flags_and(val, OPAQUE_FD))
          [] f = "opaque_win32" -> ~is_empty(flags_and(val, OPAQUE_WIN32))
          [] f = "opaque_win32_kmt" -> ~is_empty(flags_and(val, OPAQUE_WIN32_KMT))
          [] f = "d3d12_fence" -> ~is_empty(flags_and(val, D3D12_FENCE))
          [] f = "sync_fd" -> ~is_empty(flags_and(val, SYNC_FD))]

\* Mutant: the last field intersected instead of united.
bitor_sync_fd_and(self, rhs) ==
    [f \in Fields |->
        IF f = "sync_fd" THEN self[f] /\ rhs[f] ELSE self[f] \/ rhs[f]]

\* impl BitOr for ExternalSemaphoreHandleType
bitor(self, rhs) ==
    [opaque_fd |-> self["opaque_fd"] \/ rhs["opaque_fd"],
     opaque_win32 |-> self["opaque_win32"] \/ rhs["opaque_win32"],
     opaque_win32_kmt |-> self["opaque_win32_kmt"] \/ rhs["opaque_win32_kmt"],
     d3d12_fence |-> self["d3d12_fence"] \/ rhs["d3d12_fence"],
     sync_fd |-> self["sync_fd"] \/ rhs["sync_fd"]]

\* handle_type.into(): the structure as native flags.
IntoFlags ==
    /\ flags = <<>>
    /\ flags' = <<flags_from_handle_type(handle_type)>>
    /\ UNCHANGED <<handle_type, rhs_handle_type, from_flags, union>>
    /\ UNCHANGED <<rhs_flags, union_flags, export_info, get_handle_info>>
    /\ UNCHANGED exceptHandleType

\* ExternalSemaphoreHandleType::from(flags): the flags back as a structure.
FromFlags ==
    /\ flags # <<>>
    /\ from_flags = <<>>
    /\ from_flags' = <<handle_type_from_flags(flags[1])>>
    /\ UNCHANGED <<handle_type, rhs_handle_type, flags, union>>
    /\ UNCHANGED <<rhs_flags, union_flags, export_info, get_handle_info>>
    /\ UNCHANGED exceptHandleType

\* handle_type | rhs_handle_type
BitOr ==
    /\ union = <<>>
    /\ union' = <<bitor(handle_type, rhs_handle_type)>>
    /\ UNCHANGED <<handle_type, rhs_handle_type, flags, from_flags>>
    /\ UNCHANGED <<rhs_flags, union_flags, export_info, get_handle_info>>
    /\ UNCHANGED exceptHandleType

\* rhs_handle_type.into()
RhsIntoFlags ==
    /\ rhs_flags = <<>>
    /\ rhs_flags' = <<flags_from_handle_type(rhs_handle_type)>>
    /\ UNCHANGED <<handle_type, rhs_handle_type, flags, from_flags, union>>
    /\ UNCHANGED <<union_flags, export_info, get_handle_info>>
    /\ UNCHANGED exceptHandleType

\* (handle_type | rhs_handle_type).into()
UnionIntoFlags ==
    /\ union # <<>>
    /\ union_flags = <<>>
    /\ union_flags' = <<flags_from_handle_type(union[1])>>
    /\ UNCHANGED <<handle_type, rhs_handle_type, flags, from_flags, union>>
    /\ UNCHANGED <<rhs_flags, export_info, get_handle_info>>
    /\ UNCHANGED exceptHandleType

\* The handle types alloc_exportable_impl writes into ExportSemaphoreCreateInfo.
export_handle_types(handle_types) == flags_from_handle_type(win32)

\* The handle type get_handle writes into SemaphoreGetWin32HandleInfoKHR.
get_handle_type(ht) == flags_from_handle_type(win32)

\* Semaphore::alloc_exportable(device, handle_type): create_semaphore with an
\* ExportSemaphoreCreateInfo chained to the create info; it succeeds or is
\* out of memory.
AllocExportable ==
    /\ export_info = <<>>
    /\ \E res \in {"Ok", "OutOfHostMemory", "OutOfDeviceMemory"} :
          export_info' =
              <<[handle_types |-> export_handle_types(handle_type),
                 res |-> res]>>
    /\ UNCHANGED <<handle_type, rhs_handle_type, flags, from_flags, union>>
    /\ UNCHANGED <<rhs_flags, union_flags, get_handle_info>>
    /\ UNCHANGED exceptHandleType

\* semaphore.get_handle(rhs_handle_type) on the semaphore built by
\* alloc_exportable: the query succeeds, is out of memory, or hands back a
\* null handle and expect panics.
GetHandle ==
    /\ export_info # <<>>
    /\ export_info[1].res = "Ok"
    /\ get_handle_info = <<>>
    /\ \E res \in {"Ok", "OutOfHostMemory", "OutOfDeviceMemory", "panic"} :
          get_handle_info' =
              <<[handle_type |-> get_handle_type(rhs_handle_type),
                 res |-> res]>>
    /\ UNCHANGED <<handle_type, rhs_handle_type, flags, from_flags, union>>
    /\ UNCHANGED <<rhs_flags, union_flags, export_info>>
    /\ UNCHANGED exceptHandleType

IdleHandleType ==
    /\ handle_type = none
    /\ rhs_handle_type = none
    /\ flags = <<>>
    /\ from_flags = <<>>
    /\ union = <<>>
    /\ rhs_flags = <<>>
    /\ union_flags = <<>>
    /\ export_info = <<>>
    /\ get_handle_info = <<>>

(***************************************************************************)
(* pipeline/graphics_pipeline/mod.rs: GraphicsPipeline, Inner and its Drop *)
(***************************************************************************)
\* Native pipeline handles, one per GraphicsPipeline built.
Pipelines == 1..MaxPipelines

\* struct Inner { pipeline, device }: not Clone, owned by one
\* GraphicsPipeline.
Inner(pipeline) == [pipeline |-> pipeline]

\* struct GraphicsPipeline: the one field whose drop has an effect here.
GraphicsPipeline(pipeline) == [inner |-> Inner(pipeline)]

\* Mutant: a teardown that leaves the native object behind.
inner_drop_leaks(calls, inner) == calls

\* impl Drop for Inner: destroy_pipeline(device, self.pipeline, null).
inner_drop(calls, inner) == [calls EXCEPT ![inner.pipeline] = @ + 1]

\* Dropping a GraphicsPipeline drops each field once: inner.
graphics_pipeline_drop(calls, gp) == inner_drop(calls, gp.inner)

\* Native errors the pipeline creation call may come back with.
Error ==
    {"OutOfHostMemory", "OutOfDeviceMemory", "InitializationFailed",
     "DeviceLost", "TooManyObjects"}

\* OomError::from(err), for the two errors it is called with.
oom_error_from(err) == err

\* Mutant: both out-of-memory errors reported as the host's.
from_error_host_only(err) ==
    CASE err = "OutOfHostMemory" ->
             [variant |-> "OomError", payload |-> "OutOfHostMemory"]
      [] err = "OutOfDeviceMemory" ->
             [variant |-> "OomError", payload |-> "OutOfHostMemory"]
      [] OTHER -> Panic("unexpected error")

\* impl From<Error> for GraphicsPipelineCreationError
from_error(err) ==
    CASE err = "OutOfHostMemory" ->
             [variant |-> "OomError", payload |-> oom_error_from(err)]
      [] err = "OutOfDeviceMemory" ->
             [variant |-> "OomError", payload |-> oom_error_from(err)]
      [] OTHER -> Panic("unexpected error")

\* The rasterizer line width of a pipeline configuration, in tenths;
\* absent when the line width is dynamic state.
LineWidths == {NoValue, Some(10), Some(25)}

PipelineConfigs == [line_width : LineWidths]

Features == [wide_lines : BOOLEAN]

\* Mutant: the feature never consulted.
wide_lines_never_rejected(config, features) == FALSE

\* The validation behind WideLinesFeatureNotEnabled: a line width greater
\* than 1.0 needs the wide_lines feature.
wide_lines_rejected(config, features) ==
    /\ config.line_width.some
    /\ config.line_width.value > 10
    /\ ~features.wide_lines

NotCalled == "NotCalled"

NativeOutcomes == {"Success"} \cup Error

\* What a build returns: validation first, then the native creation call,
\* whose error goes through From<Error> on its way to the caller.
build_result(p, config, features, native) ==
    IF wide_lines_rejected(config, features)
    THEN [tag |-> "Err",
          err |-> [variant |-> "WideLinesFeatureNotEnabled",
                   payload |-> "none"]]
    ELSE IF native = "Success"
    THEN [tag |-> "Ok", pipeline |-> p]
    ELSE LET converted == from_error(native) IN
         IF converted = Panic("unexpected error")
         THEN converted
         ELSE [tag |-> "Err", err |-> converted]

\* A build of a GraphicsPipeline. On success the new pipeline goes into an
\* Arc; otherwise no pipeline object exists.
BuildPipeline(p, config, features, native) ==
    LET res == build_result(p, config, features, native) IN
    /\ p \notin built
    /\ last_build' =
           [config |-> config, features |-> features,
            native |-> IF wide_lines_rejected(config, features)
                       THEN NotCalled ELSE native,
            result |-> res,
            produced |-> IF res.tag = "Ok" THEN {p} ELSE {}]
    /\ IF res.tag = "Ok"
       THEN /\ built' = built \cup {p}
            /\ strong_count' = [strong_count EXCEPT ![p] = 1]
            /\ peak_count' = [peak_count EXCEPT ![p] = 1]
       ELSE UNCHANGED <<built, strong_count, peak_count>>
    /\ UNCHANGED destroy_pipeline_calls
    /\ UNCHANGED exceptPipeline

\* Arc::clone: one more shared reference to the same GraphicsPipeline.
ArcClone(p) ==
    /\ strong_count[p] >= 1
    /\ strong_count[p] < MaxRefs
    /\ strong_count' = [strong_count EXCEPT ![p] = @ + 1]
    /\ peak_count' = [peak_count EXCEPT
                         ![p] = IF @ > strong_count[p] THEN @
                                ELSE strong_count[p] + 1]
    /\ UNCHANGED <<built, destroy_pipeline_calls, last_build>>
    /\ UNCHANGED exceptPipeline

\* A shared reference goes away; the last one takes the GraphicsPipeline,
\* and with it its Inner, down.
ArcDrop(p) ==
    /\ strong_count[p] >= 1
    /\ strong_count' = [strong_count EXCEPT ![p] = @ - 1]
    /\ destroy_pipeline_calls' =
           IF strong_count[p] = 1
           THEN graphics_pipeline_drop(destroy_pipeline_calls,
                                       GraphicsPipeline(p))
           ELSE destroy_pipeline_calls
    /\ UNCHANGED <<built, peak_count, last_build>>
    /\ UNCHANGED exceptPipeline

IdlePipeline ==
    /\ built = {}
    /\ strong_count = [p \in Pipelines |-> 0]
    /\ peak_count = [p \in Pipelines |-> 0]
    /\ destroy_pipeline_calls = [p \in Pipelines |-> 0]
    /\ last_build = [config |-> [line_width |-> NoValue],
                     features |-> [wide_lines |-> FALSE],
                     native |-> NotCalled, result |-> Pending,
                     produced |-> {}]

(***************************************************************************)
(* descriptor_set: the builder that fills the bindings of a layout         *)
(***************************************************************************)
\* What a binding of the target layout declares, and what a caller adds.
ResourceKinds == {"buffer", "image"}

\* Non-array layouts: one descriptor per binding, no empty binding.
BuilderLayouts == SeqsUpTo(ResourceKinds, MaxBindings)

SetError(variant) == [tag |-> "Err", err |-> [variant |-> variant]]

DescriptorsMissing(expected, obtained) ==
    [tag |-> "Err",
     err |-> [variant |-> "DescriptorsMissing",
              expected |-> expected, obtained |-> obtained]]

BuilderOk == [tag |-> "Ok"]

\* Mutant: a set finished whatever was filled.
build_never_missing(cursor, expected) == FALSE

\* The test behind DescriptorsMissing: bindings left unfilled.
build_missing(cursor, expected) == cursor < expected

\* The test behind TooManyDescriptors: no binding left to fill.
add_too_many(cursor, expected) == cursor >= expected

\* What adding a resource answers, and whether it advances the cursor.
add_result(layout, cursor, is_poisoned, kind) ==
    IF is_poisoned THEN SetError("BuilderPoisoned")
    ELSE IF add_too_many(cursor, Len(layout))
    THEN SetError("TooManyDescriptors")
    ELSE IF layout[cursor + 1] # kind THEN SetError("WrongDescriptorType")
    ELSE BuilderOk

\* What finishing the set answers.
build_set_result(layout, cursor, is_poisoned) ==
    IF is_poisoned THEN SetError("BuilderPoisoned")
    ELSE IF build_missing(cursor, Len(layout))
    THEN DescriptorsMissing(Len(layout), cursor)
    ELSE BuilderOk

BuilderOp(op, res) ==
    [op |-> op, result |-> res, cursor_before |-> cur_binding,
     poisoned_before |-> poisoned]

\* add_buffer / add_image / add_sampler on the builder
AddDescriptor(kind) ==
    LET res == add_result(set_layout, cur_binding, poisoned, kind) IN
    /\ ~finished
    /\ builder_op' = BuilderOp("add", res)
    /\ IF res = BuilderOk
       THEN /\ cur_binding' = cur_binding + 1
            /\ added' = Append(added, kind)
            /\ UNCHANGED poisoned
       ELSE /\ poisoned' = TRUE
            /\ UNCHANGED <<cur_binding, added>>
    /\ UNCHANGED <<set_layout, finished>>
    /\ UNCHANGED exceptBuilder

\* build: the builder is used up, with a set or with an error.
BuildSet ==
    /\ ~finished
    /\ builder_op' =
           BuilderOp("build", build_set_result(set_layout, cur_binding, poisoned))
    /\ finished' = TRUE
    /\ UNCHANGED <<set_layout, cur_binding, added, poisoned>>
    /\ UNCHANGED exceptBuilder

IdleBuilder ==
    /\ set_layout = <<>>
    /\ cur_binding = 0
    /\ added = <<>>
    /\ poisoned = FALSE
    /\ finished = FALSE
    /\ builder_op = BuilderOp("none", BuilderOk)

(***************************************************************************)
(* Specifications                                                          *)
(***************************************************************************)
IdleAlloc ==
    /\ memory_types = <<[id |-> 0, host_visible |-> TRUE]>>
    /\ request = [requirements |->
                      [size |-> 1, alignment |-> 1, memory_type_bits |-> 1,
                       prefer_dedicated |-> FALSE],
                  layout |-> "Linear", map |-> "DoNotMap", dedicated |-> "None",
                  filter |-> [id \in 0..(MaxTypes - 1) |-> "Allowed"]]
    /\ enabled_extensions = NoExtensions
    /\ filter_calls = <<>>
    /\ generic_calls = <<>>
    /\ native_allocs = <<>>
    /\ callee_results = <<>>
    /\ result = Pending

IdleDesc ==
    /\ properties = [min_uniform_buffer_offset_alignment |-> 16,
                     min_storage_buffer_offset_alignment |-> 16]
    /\ bindings = <<>>
    /\ dynamic_offsets = <<>>
    /\ with_offsets = Pending

\* A device just created: both pools empty, no semaphore yet.
InitSemaphores ==
    /\ semaphore_pool = <<>>
    /\ exportable_semaphore_pool = <<>>
    /\ semaphores = {}
    /\ created = 0
    /\ exportable = {}
    /\ created_by = [h \in Handles |-> "none"]
    /\ destroy_count = [h \in Handles |-> 0]
    /\ last_op = Op("none", "Ok", 0, FALSE)

InitAlloc ==
    /\ memory_types \in MemoryTypeLists
    /\ request \in Requests
    /\ enabled_extensions = NoExtensions
    /\ filter_calls = <<>>
    /\ generic_calls = <<>>
    /\ native_allocs = <<>>
    /\ callee_results = <<>>
    /\ result = Pending
    /\ IdleDesc
    /\ InitSemaphores
    /\ IdleThreads
    /\ IdleAccess
    /\ IdleEq
    /\ IdleHandleType
    /\ IdlePipeline
    /\ IdleBuilder

NextAlloc == AllocFromRequirements

SpecAlloc == InitAlloc /\ [][NextAlloc]_vars

\* alloc_dedicated_with_exportable_fd reads neither layout nor
\* requirements.alignment: both are held fixed.
InitAllocFd ==
    /\ memory_types \in MemoryTypeLists
    /\ request \in Requests
    /\ request.layout = "Linear"
    /\ request.requirements.alignment = 1
    /\ enabled_extensions \in Extensions
    /\ filter_calls = <<>>
    /\ generic_calls = <<>>
    /\ native_allocs = <<>>
    /\ callee_results = <<>>
    /\ result = Pending
    /\ IdleDesc
    /\ InitSemaphores
    /\ IdleThreads
    /\ IdleAccess
    /\ IdleEq
    /\ IdleHandleType
    /\ IdlePipeline
    /\ IdleBuilder

NextAllocFd == AllocDedicatedWithExportableFd

SpecAllocFd == InitAllocFd /\ [][NextAllocFd]_vars

InitDesc ==
    /\ properties \in PhysicalDeviceProperties
    /\ bindings \in BindingLists
    /\ dynamic_offsets \in OffsetLists
    /\ with_offsets = Pending
    /\ IdleAlloc
    /\ InitSemaphores
    /\ IdleThreads
    /\ IdleAccess
    /\ IdleEq
    /\ IdleHandleType
    /\ IdlePipeline
    /\ IdleBuilder

NextDesc == DescriptorSetWithOffsetsNew

SpecDesc == InitDesc /\ [][NextDesc]_vars

InitSem ==
    /\ IdleAlloc
    /\ IdleDesc
    /\ InitSemaphores
    /\ IdleThreads
    /\ IdleAccess
    /\ IdleEq
    /\ IdleHandleType
    /\ IdlePipeline
    /\ IdleBuilder

NextSem ==
    \/ FromPool
    \/ FromExportablePool
    \/ Alloc
    \/ \E sem \in semaphores : Drop(sem)

SpecSem == InitSem /\ [][NextSem]_vars

NextSemThreads ==
    \E t \in Threads :
        \/ BeginFromPool(t)
        \/ FromPoolLock(t)
        \/ FromPoolPop(t)
        \/ FromPoolAlloc(t)
        \/ ThreadAlloc(t)
        \/ \E sem \in semaphores : BeginDrop(t, sem)
        \/ DropLock(t)
        \/ DropPush(t)
        \/ DropDestroy(t)

SpecSemThreads == InitSem /\ [][NextSemThreads]_vars

\* A call under way is scheduled again and again, and a thread that waits
\* for the mutex gets it in the end.
FairSpecSemThreads ==
    /\ SpecSemThreads
    /\ \A t \in Threads : WF_vars(Continue(t)) /\ SF_vars(Acquire(t))


InitAccess ==
    /\ allocation \in PotentialDedicatedAllocation
    /\ observed = [f \in Accessors |-> <<>>]
    /\ IdleAlloc
    /\ IdleDesc
    /\ InitSemaphores
    /\ IdleThreads
    /\ IdleEq
    /\ IdleHandleType
    /\ IdlePipeline
    /\ IdleBuilder

NextAccess == CallMappedMemory \/ CallMemory \/ CallOffset

SpecAccess == InitAccess /\ [][NextAccess]_vars

InitEq ==
    /\ set_a \in DescriptorSets
    /\ set_b \in DescriptorSets
    /\ compared = <<>>
    /\ hashes = <<>>
    /\ IdleAlloc
    /\ IdleDesc
    /\ InitSemaphores
    /\ IdleThreads
    /\ IdleAccess
    /\ IdleHandleType
    /\ IdlePipeline
    /\ IdleBuilder

NextEq == CompareSets \/ HashSets

SpecEq == InitEq /\ [][NextEq]_vars

InitHandleType ==
    /\ handle_type \in ExternalSemaphoreHandleType
    /\ rhs_handle_type \in ExternalSemaphoreHandleType
    /\ flags = <<>>
    /\ from_flags = <<>>
    /\ union = <<>>
    /\ rhs_flags = <<>>
    /\ union_flags = <<>>
    /\ export_info = <<>>
    /\ get_handle_info = <<>>
    /\ IdleAlloc
    /\ IdleDesc
    /\ InitSemaphores
    /\ IdleThreads
    /\ IdleAccess
    /\ IdleEq
    /\ IdlePipeline
    /\ IdleBuilder

NextHandleType ==
    \/ IntoFlags
    \/ FromFlags
    \/ BitOr
    \/ RhsIntoFlags
    \/ UnionIntoFlags
    \/ AllocExportable
    \/ GetHandle

SpecHandleType == InitHandleType /\ [][NextHandleType]_vars

InitPipeline ==
    /\ IdleAlloc
    /\ IdleDesc
    /\ InitSemaphores
    /\ IdleThreads
    /\ IdleAccess
    /\ IdleEq
    /\ IdleHandleType
    /\ IdlePipeline
    /\ IdleBuilder

NextPipeline ==
    \E p \in Pipelines :
        \/ \E config \in PipelineConfigs, features \in Features,
              native \in NativeOutcomes :
               BuildPipeline(p, config, features, native)
        \/ ArcClone(p)
        \/ ArcDrop(p)

SpecPipeline == InitPipeline /\ [][NextPipeline]_vars

InitBuilder ==
    /\ set_layout \in BuilderLayouts
    /\ cur_binding = 0
    /\ added = <<>>
    /\ poisoned = FALSE
    /\ finished = FALSE
    /\ builder_op = BuilderOp("none", BuilderOk)
    /\ IdleAlloc
    /\ IdleDesc
    /\ InitSemaphores
    /\ IdleThreads
    /\ IdleAccess
    /\ IdleEq
    /\ IdleHandleType
    /\ IdlePipeline

NextBuilder == BuildSet \/ \E kind \in ResourceKinds : AddDescriptor(kind)

SpecBuilder == InitBuilder /\ [][NextBuilder]_vars

(***************************************************************************)
(* Properties of the allocator (checked under SpecAlloc)                   *)
(***************************************************************************)
Returned == result.tag \in {"Ok", "Err"}

\* The memory type handed on to alloc_generic or to the native constructor.
PassedTypes ==
    { generic_calls[i].ty : i \in 1..Len(generic_calls) }
        \cup { native_allocs[i].ty : i \in 1..Len(native_allocs) }

\* Bit id of mask bits, read off the binary expansion.
HasBit(bits, id) == (bits % (2 ^ (id + 1))) >= 2 ^ id

DeviceTypes == { memory_types[i] : i \in 1..Len(memory_types) }

\* A device type the request may use at all.
Eligible(t) ==
    /\ HasBit(request.requirements.memory_type_bits, t.id)
    /\ (request.map = "Map" => t.host_visible)

EligibleIds(mark) ==
    { t.id : t \in { u \in DeviceTypes : Eligible(u) /\ request.filter[u.id] = mark } }

NoEligibleType == EligibleIds("Preferred") \cup EligibleIds("Allowed") = {}

ExpectedTypeId ==
    IF EligibleIds("Preferred") # {} THEN Min(EligibleIds("Preferred"))
    ELSE Min(EligibleIds("Allowed"))

OverCeiling == request.requirements.size > 256 * 1024 * 1024

DedicatedVariants == {"Dedicated", "DedicatedMapped"}

C2_GenericAtOrBelowCeiling ==
    (Returned /\ ~OverCeiling /\ ~request.requirements.prefer_dedicated) =>
        /\ Len(generic_calls) = 1
        /\ generic_calls[1] =
               [ty |-> CHOOSE t \in DeviceTypes : t.id = ExpectedTypeId,
                size |-> request.requirements.size,
                alignment |-> request.requirements.alignment,
                layout |-> request.layout, map |-> request.map]
        /\ native_allocs = <<>>
        /\ (result.tag = "Ok" => result.variant = "Generic")

C2_Witness ==
    /\ result.tag = "Ok" /\ result.variant = "Generic"
    /\ request.requirements.size = 256 * 1024 * 1024
    /\ ~request.requirements.prefer_dedicated
    /\ request.dedicated = "Image"
    /\ Len(generic_calls) = 1

\* C3: with a dedicated hint other than None and size > 256 MiB or
\* prefer_dedicated, alloc_generic is not called, one device-memory object of
\* exactly requirements.size is allocated, and the result is DedicatedMapped
\* if and only if map is Map, Dedicated otherwise.
C3_DedicatedBypassesPool ==
    (Returned /\ request.dedicated # "None"
        /\ (OverCeiling \/ request.requirements.prefer_dedicated)) =>
        /\ generic_calls = <<>>
        /\ Len(native_allocs) = 1
        /\ native_allocs[1].size = request.requirements.size
        /\ native_allocs[1].dedicated = request.dedicated
        /\ (native_allocs[1].fn = "dedicated_alloc_and_map") = (request.map = "Map")
        /\ (result.tag = "Ok" =>
               /\ result.size = request.requirements.size
               /\ result.variant =
                      IF request.map = "Map" THEN "DedicatedMapped" ELSE "Dedicated")

C3_Witness ==
    /\ result.tag = "Ok" /\ result.variant = "DedicatedMapped"
    /\ request.map = "Map"
    /\ request.requirements.prefer_dedicated /\ ~OverCeiling
    /\ request.dedicated = "Image"
    /\ generic_calls = <<>>

\* C4: for size > 0, alignment > 0 and a non-empty memory_type_bits, the type
\* choose_allocation_memory_type returns is one of the device's, its id's bit
\* is set in memory_type_bits, and it is host-visible when map is Map.
C4_ChosenTypeAllowedByBits ==
    (request.requirements.size > 0 /\ request.requirements.alignment > 0
        /\ request.requirements.memory_type_bits # 0) =>
        \A t \in PassedTypes :
            /\ t \in DeviceTypes
            /\ HasBit(request.requirements.memory_type_bits, t.id)
            /\ (request.map = "Map" => t.host_visible)

\* A non-host-visible type the filter prefers is passed over for a Map request.
C4_Witness ==
    /\ Returned /\ request.map = "Map"
    /\ \E u \in DeviceTypes :
          /\ ~u.host_visible
          /\ HasBit(request.requirements.memory_type_bits, u.id)
          /\ request.filter[u.id] = "Preferred"
    /\ \E t \in PassedTypes : t.host_visible

\* C5: the type chosen is the lowest-id eligible type the filter marks
\* Preferred if there is one, otherwise the lowest-id eligible type marked
\* Allowed; never a Forbidden type, never one whose bit is absent.
C5_PreferredThenAllowed ==
    Returned =>
        /\ PassedTypes # {}
        /\ \A t \in PassedTypes :
              /\ t.id = ExpectedTypeId
              /\ request.filter[t.id] # "Forbidden"
              /\ HasBit(request.requirements.memory_type_bits, t.id)

\* A Preferred type with a higher id wins over an Allowed type with a lower id.
C5_Witness ==
    /\ Returned
    /\ \E t \in PassedTypes :
          /\ request.filter[t.id] = "Preferred"
          /\ \E u \in DeviceTypes :
                u.id < t.id /\ Eligible(u) /\ request.filter[u.id] = "Allowed"

\* C6: when no type is eligible the call panics, it returns no Err value, and
\* neither alloc_generic nor a native allocation has been called.
C6_NoEligibleTypePanics ==
    (result # Pending /\ NoEligibleType) =>
        /\ result.tag = "panic"
        /\ generic_calls = <<>>
        /\ native_allocs = <<>>

\* The panic of a request whose mask names device types, all of them barred.
C6_Witness ==
    /\ result.tag = "panic"
    /\ \E t \in DeviceTypes : HasBit(request.requirements.memory_type_bits, t.id)
    /\ generic_calls = <<>> /\ native_allocs = <<>>

(***************************************************************************)
(* Properties of DescriptorSetWithOffsets::new (checked under SpecDesc)    *)
(***************************************************************************)
IsDynamic(slot) == slot \in {"UniformBufferDynamic", "StorageBufferDynamic"}

\* The dynamic bindings of the layout, in declaration order.
DynamicBindings == SelectSeq(bindings, IsDynamic)

RequiredAlignment(slot) ==
    IF slot = "UniformBufferDynamic"
    THEN properties.min_uniform_buffer_offset_alignment
    ELSE properties.min_storage_buffer_offset_alignment

OffsetsMatchLayout ==
    /\ Len(dynamic_offsets) = Len(DynamicBindings)
    /\ \A i \in 1..Len(DynamicBindings) :
          dynamic_offsets[i] % RequiredAlignment(DynamicBindings[i]) = 0

\* C7: on a layout with N dynamic bindings, new succeeds if and only if there
\* are exactly N offsets and the i-th offset is a multiple of the alignment of
\* the i-th dynamic binding's buffer class; every other input panics.
C7_SucceedsIffOffsetsMatch ==
    with_offsets # Pending =>
        /\ with_offsets.tag \in {"Ok", "panic"}
        /\ (with_offsets.tag = "Ok") = OffsetsMatchLayout

\* What does hold of new: C7's equivalence on the layouts without an empty
\* slot, and a panic on every layout with one.
C7_OnFullLayouts ==
    with_offsets # Pending =>
        IF \E i \in 1..Len(bindings) : bindings[i] = None
        THEN with_offsets.tag = "panic"
        ELSE (with_offsets.tag = "Ok") = OffsetsMatchLayout

\* C28: every slot that is not a dynamic uniform or dynamic storage buffer,
\* an empty slot included, consumes no offset and causes no failure: new
\* fails only when the offsets do not match the dynamic bindings.
C28_NonDynamicSlotsCauseNoFailure ==
    (with_offsets # Pending /\ OffsetsMatchLayout) => with_offsets.tag = "Ok"

(***************************************************************************)
(* Properties of Semaphore (checked under SpecSem)                         *)
(***************************************************************************)
\* C8: from_pool on an empty pool creates a new native semaphore and leaves
\* the pool empty; the drop of a pooled semaphore pushes its handle (an empty
\* pool gets length 1) and destroys nothing; the from_pool that follows
\* returns that very handle, creates nothing and takes the pool back to the
\* length it had.
C8_PoolReuse ==
    [][ /\ (last_op'.op = "from_pool" /\ last_op'.res = "Ok"
                /\ semaphore_pool = <<>>) =>
            /\ created' = created + 1
            /\ last_op'.semaphore = created'
            /\ semaphore_pool' = <<>>
        /\ (last_op'.op = "drop" /\ last_op'.must_put_in_pool) =>
            /\ semaphore_pool' = Append(semaphore_pool, last_op'.semaphore)
            /\ destroy_count' = destroy_count
            /\ created' = created
        /\ (last_op.op = "drop" /\ last_op.must_put_in_pool
                /\ last_op'.op = "from_pool") =>
            /\ last_op'.res = "Ok"
            /\ last_op'.semaphore = last_op.semaphore
            /\ created' = created
            /\ Len(semaphore_pool') = Len(semaphore_pool) - 1
      ]_vars

\* from_pool has just returned a handle that is not the newest one created,
\* so a reused one, and the pool is empty again.
C8_Witness ==
    /\ last_op.op = "from_pool" /\ last_op.res = "Ok"
    /\ last_op.semaphore < created
    /\ last_op.semaphore \notin exportable
    /\ semaphore_pool = <<>>
    /\ \A h \in Handles : destroy_count[h] = 0

\* C9: a semaphore taken with from_exportable_pool goes back, on drop, to the
\* exportable pool: its handle never sits in the plain pool and from_pool
\* never returns it.
C9_ExportableBackToItsPool ==
    /\ \A i \in 1..Len(semaphore_pool) : semaphore_pool[i] \notin exportable
    /\ \A sem \in semaphores :
          sem.via = "from_pool" => sem.semaphore \notin exportable

\* C10: a drop pushes the handle to the pool free list, and destroys nothing,
\* exactly when must_put_in_pool is set; a semaphore built by alloc has the
\* flag unset, and its drop destroys its handle once and leaves the free list
\* as it was. No handle is destroyed twice.
C10_DropPoolsOrDestroys ==
    [][ /\ \A sem \in semaphores \ semaphores' :
              IF sem.must_put_in_pool
              THEN /\ semaphore_pool' = Append(semaphore_pool, sem.semaphore)
                   /\ destroy_count' = destroy_count
              ELSE /\ destroy_count' =
                          [destroy_count EXCEPT ![sem.semaphore] = 1]
                   /\ semaphore_pool' = semaphore_pool
                   /\ exportable_semaphore_pool' = exportable_semaphore_pool
        /\ \A sem \in semaphores' :
              sem.via = "alloc" => ~sem.must_put_in_pool
        /\ \A h \in Handles : destroy_count'[h] <= 1
      ]_vars

\* A semaphore built by alloc has just been dropped next to a non-empty pool.
C10_Witness ==
    /\ last_op.op = "drop" /\ ~last_op.must_put_in_pool
    /\ destroy_count[last_op.semaphore] = 1
    /\ semaphore_pool # <<>>
    /\ last_op.semaphore \notin
           { semaphore_pool[i] : i \in 1..Len(semaphore_pool) }

(***************************************************************************)
(* Properties of Semaphore with several threads                            *)
(* (checked under FairSpecSemThreads)                                      *)
(***************************************************************************)
\* The mutex is held only between lock() and the pop or push of the same
\* statement: not while a native semaphore is created or destroyed, and not
\* by a thread that is between two calls, whatever Semaphores are alive.
LockHeldOnlyForListMutation ==
    /\ \A t \in Threads :
          (lock = t) = (pc[t] \in {"from_pool_pop", "drop_push"})
    /\ lock \in Threads \cup {NoThread}

Answered(f) == observed[f] # <<>>

Answer(f) == observed[f][1]

IsDedicated == allocation.variant \in {"Dedicated", "DedicatedMapped"}

\* The DeviceMemory a dedicated allocation owns.
OwnMemory ==
    IF allocation.variant = "Dedicated"
    THEN allocation.mem ELSE allocation.mem.memory

\* C12: Dedicated and DedicatedMapped report offset 0 and their own memory;
\* mapped_memory is absent for Dedicated and present for DedicatedMapped;
\* Generic forwards all three answers of the wrapped pool allocation.
C12_AccessorsByVariant ==
    /\ (IsDedicated /\ Answered("offset")) => Answer("offset") = 0
    /\ (IsDedicated /\ Answered("memory")) => Answer("memory") = OwnMemory
    /\ (allocation.variant = "Dedicated" /\ Answered("mapped_memory"))
          => ~Answer("mapped_memory").some
    /\ (allocation.variant = "DedicatedMapped" /\ Answered("mapped_memory"))
          => /\ Answer("mapped_memory").some
             /\ Answer("mapped_memory").value = allocation.mem
    /\ allocation.variant = "Generic" =>
          \A f \in Accessors : Answered(f) => Answer(f) = allocation.alloc[f]

\* A mapped dedicated allocation of the second memory, asked everything.
C12_Witness ==
    /\ allocation.variant = "DedicatedMapped"
    /\ allocation.mem.memory = 2
    /\ \A f \in Accessors : Answered(f)

(***************************************************************************)
(* Error propagation of alloc_from_requirements (checked under SpecAlloc)  *)
(***************************************************************************)
CalleeFailed ==
    /\ callee_results # <<>>
    /\ callee_results[Len(callee_results)] \in DeviceMemoryAllocError

\* C13: when alloc_generic or the native dedicated allocation fails, the
\* call returns Err carrying that very error: it does not panic, does not
\* turn the failure into a success, and makes no second attempt on the
\* other path.
C13_CalleeErrorPropagated ==
    CalleeFailed =>
        /\ result = [tag |-> "Err", err |-> callee_results[1]]
        /\ Len(callee_results) = 1
        /\ Len(generic_calls) + Len(native_allocs) = 1

\* The native layer runs out of device memory on a mapped dedicated call.
C13_Witness ==
    /\ CalleeFailed
    /\ callee_results[1] = "OutOfDeviceMemory"
    /\ native_allocs # <<>>
    /\ native_allocs[1].fn = "dedicated_alloc_and_map"

(***************************************************************************)
(* Properties of descriptor-set equality (checked under SpecEq)            *)
(***************************************************************************)
SameHandle == set_a.internal_object = set_b.internal_object

SameDevice == set_a.device = set_b.device

SameContentsAndLayout ==
    set_a.contents = set_b.contents /\ set_a.layout = set_b.layout

\* C14: two descriptor sets are equal exactly when they have the same
\* native handle and the same owning device; sets that differ in either are
\* unequal even when contents and layout coincide; equal sets hash equal.
C14_EqualIffSameHandleAndDevice ==
    /\ compared # <<>> =>
          /\ compared[1] = (SameHandle /\ SameDevice)
          /\ (SameContentsAndLayout /\ ~(SameHandle /\ SameDevice))
                => compared[1] = FALSE
    /\ (compared = <<TRUE>> /\ hashes # <<>>) => hashes[1] = hashes[2]

\* The same handle value on two devices, the same contents and layout:
\* compared, found unequal.
C14_Witness ==
    /\ compared = <<FALSE>>
    /\ SameHandle /\ ~SameDevice
    /\ SameContentsAndLayout
    /\ hashes # <<>>

(***************************************************************************)
(* Properties of ExternalSemaphoreHandleType (checked under SpecHandleType)*)
(***************************************************************************)
\* The structure with exactly one field set.
OnlyField(ht, field) == \A f \in Fields : ht[f] = (f = field)

\* C15: a handle type converted to native flags and back is the structure
\* it was, for all 32 combinations of the five fields; posix() has only
\* opaque_fd set and win32() only opaque_win32.
C15_FlagsRoundTrip ==
    /\ from_flags # <<>> => from_flags[1] = handle_type
    /\ OnlyField(posix, "opaque_fd")
    /\ OnlyField(win32, "opaque_win32")

\* A structure with sync_fd and opaque_win32_kmt set went there and back.
C15_Witness ==
    /\ from_flags # <<>>
    /\ handle_type["sync_fd"] /\ handle_type["opaque_win32_kmt"]
    /\ ~handle_type["d3d12_fence"]
    /\ flags = <<20>>

\* C16: a | b has a field set exactly when a or b has it set, and
\* none() | none() is none().
C16_BitOrIsFieldwiseUnion ==
    union # <<>> =>
        /\ \A f \in Fields :
              union[1][f] = (handle_type[f] \/ rhs_handle_type[f])
        /\ (handle_type = none /\ rhs_handle_type = none) => union[1] = none

\* posix() | win32(): two fields set, each from one operand.
C16_Witness ==
    /\ union # <<>>
    /\ handle_type = posix
    /\ rhs_handle_type = win32
    /\ union[1]["opaque_fd"] /\ union[1]["opaque_win32"]
    /\ ~union[1]["sync_fd"]

\* The native mask of a structure: the sum of the bits of its set fields.
BitOf(f) ==
    CASE f = "opaque_fd" -> 1
      [] f = "opaque_win32" -> 2
      [] f = "opaque_win32_kmt" -> 4
      [] f = "d3d12_fence" -> 8
      [] f = "sync_fd" -> 16

MaskHas(mask, f) == (mask \div BitOf(f)) % 2 = 1

\* Bitwise OR of two native masks.
MaskOr(a, b) ==
    LET both == { f \in Fields : MaskHas(a, f) \/ MaskHas(b, f) }
        bit(f) == IF f \in both THEN BitOf(f) ELSE 0
    IN  bit("opaque_fd") + bit("opaque_win32") + bit("opaque_win32_kmt")
            + bit("d3d12_fence") + bit("sync_fd")

MaskOf(ht) == MaskOr(IF ht["opaque_fd"] THEN 1 ELSE 0,
                     MaskOr(IF ht["opaque_win32"] THEN 2 ELSE 0,
                     MaskOr(IF ht["opaque_win32_kmt"] THEN 4 ELSE 0,
                     MaskOr(IF ht["d3d12_fence"] THEN 8 ELSE 0,
                            IF ht["sync_fd"] THEN 16 ELSE 0))))

\* C29: alloc_exportable(device, handle_type) creates the semaphore with
\* export handle types equal to its argument, and get_handle(handle_type)
\* queries the native layer for its argument, whatever the argument is.
C29_ArgumentDeterminesNativeHandleType ==
    /\ export_info # <<>> =>
          export_info[1].handle_types = MaskOf(handle_type)
    /\ get_handle_info # <<>> =>
          get_handle_info[1].handle_type = MaskOf(rhs_handle_type)

\* C30: the conversion to native flags commutes with OR: the flags of a | b
\* are the flags of a OR-ed with the flags of b; none() converts to the empty
\* flag set; and each field alone converts to one bit, different fields to
\* different bits.
C30_IntoFlagsCommutesWithOr ==
    /\ (flags # <<>> /\ rhs_flags # <<>> /\ union_flags # <<>>) =>
          union_flags[1] = MaskOr(flags[1], rhs_flags[1])
    /\ (flags # <<>> /\ handle_type = none) => flags[1] = 0
    /\ \A f \in Fields :
          (flags # <<>> /\ OnlyField(handle_type, f)) =>
              /\ flags[1] \in {1, 2, 4, 8, 16}
              /\ \A g \in Fields \ {f} :
                    (rhs_flags # <<>> /\ OnlyField(rhs_handle_type, g)) =>
                        rhs_flags[1] # flags[1]

\* opaque_fd with sync_fd on the left, sync_fd with d3d12_fence on the
\* right: the shared bit appears once in the flags of the union.
C30_Witness ==
    /\ flags = <<17>>
    /\ rhs_flags = <<24>>
    /\ union_flags = <<25>>

(***************************************************************************)
(* Properties of GraphicsPipeline teardown (checked under SpecPipeline)    *)
(***************************************************************************)
TornDown(p) == p \in built /\ strong_count[p] = 0

\* C17: the native pipeline handle of a GraphicsPipeline is destroyed
\* exactly once, when the pipeline is torn down, however many shared
\* references it had: never while a reference is alive, never twice.
C17_DestroyedExactlyOnceAtTeardown ==
    \A p \in Pipelines :
        /\ TornDown(p) => destroy_pipeline_calls[p] = 1
        /\ ~TornDown(p) => destroy_pipeline_calls[p] = 0

\* A pipeline that was shared MaxRefs ways is gone, another is still
\* referenced.
C17_Witness ==
    \E p, q \in Pipelines :
        /\ TornDown(p)
        /\ peak_count[p] = MaxRefs
        /\ strong_count[q] >= 2

(***************************************************************************)
(* Properties of pipeline creation errors (checked under SpecPipeline)     *)
(***************************************************************************)
NativeFailed == last_build.native \in Error

OutOfMemory == {"OutOfHostMemory", "OutOfDeviceMemory"}

TypedError(res) == res.tag = "Err"

\* C18 as stated: every native error converted into
\* GraphicsPipelineCreationError comes back as a typed error, the two
\* out-of-memory errors as OomError of the matching kind, and no native
\* error makes the conversion fail out of band.
C18_EveryNativeErrorTyped ==
    NativeFailed =>
        /\ TypedError(last_build.result)
        /\ last_build.native \in OutOfMemory =>
              last_build.result.err =
                  [variant |-> "OomError", payload |-> last_build.native]

\* C18 amended: OutOfHostMemory and OutOfDeviceMemory come back as the typed
\* error OomError of the matching kind; for every other native error the
\* conversion panics and no typed result is produced.
C18_OomTypedOthersPanic ==
    NativeFailed =>
        IF last_build.native \in OutOfMemory
        THEN last_build.result =
                 [tag |-> "Err",
                  err |-> [variant |-> "OomError",
                           payload |-> last_build.native]]
        ELSE last_build.result = Panic("unexpected error")

\* The device runs out of memory while an earlier pipeline is alive.
C18_Witness ==
    /\ last_build.native = "OutOfDeviceMemory"
    /\ TypedError(last_build.result)
    /\ built # {}

(***************************************************************************)
(* Properties of pipeline validation (checked under SpecPipeline)          *)
(***************************************************************************)
\* A fixed line width above 1.0.
RequestsWideLines(config) ==
    config.line_width \in {Some(w) : w \in 11..25}

WideLinesFeatureNotEnabled ==
    [tag |-> "Err",
     err |-> [variant |-> "WideLinesFeatureNotEnabled", payload |-> "none"]]

\* C19: a configuration that requests wide lines is rejected with exactly
\* WideLinesFeatureNotEnabled, and no pipeline object comes into being,
\* when the wide_lines feature is disabled; the identical configuration is
\* accepted once the feature is enabled.
C19_WideLinesNeedFeature ==
    (last_build.result # Pending /\ RequestsWideLines(last_build.config)) =>
        IF last_build.features.wide_lines
        THEN /\ last_build.result # WideLinesFeatureNotEnabled
             /\ last_build.native = "Success" =>
                   /\ last_build.result.tag = "Ok"
                   /\ last_build.produced # {}
                   /\ last_build.produced \subseteq built
        ELSE /\ last_build.result = WideLinesFeatureNotEnabled
             /\ last_build.produced = {}
             /\ last_build.native = NotCalled

\* A wide-line configuration turned down on a device without the feature.
C19_Witness ==
    /\ RequestsWideLines(last_build.config)
    /\ ~last_build.features.wide_lines
    /\ last_build.result = WideLinesFeatureNotEnabled
    /\ built = {}

(***************************************************************************)
(* Properties of the descriptor-set builder (checked under SpecBuilder)    *)
(***************************************************************************)
NumBindings == Len(set_layout)

\* The call met a builder that had returned no error so far.
OnSoundBuilder(op) == builder_op.op = op /\ ~builder_op.poisoned_before

\* C20: with N bindings in a non-array layout, adding an (N+1)-th
\* descriptor returns the error TooManyDescriptors; finishing with k < N
\* filled returns DescriptorsMissing with expected N and obtained k; and a
\* set is finished successfully only after exactly N were added.
C20_BuilderCountsBindings ==
    /\ (OnSoundBuilder("add") /\ builder_op.cursor_before = NumBindings)
          => builder_op.result = SetError("TooManyDescriptors")
    /\ (OnSoundBuilder("build") /\ Len(added) < NumBindings)
          => builder_op.result = DescriptorsMissing(NumBindings, Len(added))
    /\ (builder_op.op = "build" /\ builder_op.result = BuilderOk)
          => /\ Len(added) = NumBindings
             /\ ~builder_op.poisoned_before
    /\ (OnSoundBuilder("build") /\ Len(added) = NumBindings)
          => builder_op.result = BuilderOk

\* Three bindings, two filled, then build: two of three obtained.
C20_Witness ==
    /\ NumBindings = 3
    /\ builder_op.op = "build"
    /\ builder_op.result = DescriptorsMissing(3, 2)

(***************************************************************************)
(* Properties of alloc_dedicated_with_exportable_fd                        *)
(* (checked under SpecAllocFd)                                             *)
(***************************************************************************)
BothExtensions ==
    /\ enabled_extensions.khr_external_memory
    /\ enabled_extensions.khr_external_memory_fd

\* C21: with both extensions enabled the function makes a dedicated native
\* allocation of exactly requirements.size, whatever the size and
\* prefer_dedicated are, and returns DedicatedMapped for Map and Dedicated
\* for DoNotMap, never Generic; with either extension disabled it panics
\* before any type is chosen or anything is allocated.
C21_ExportableAlwaysDedicated ==
    result # Pending =>
        IF BothExtensions
        THEN /\ generic_calls = <<>>
             /\ result.tag # "panic" =>
                   /\ Len(native_allocs) = 1
                   /\ native_allocs[1].size = request.requirements.size
                   /\ (native_allocs[1].fn =
                          "dedicated_alloc_and_map_with_exportable_fd")
                         = (request.map = "Map")
             /\ result.tag = "Ok" =>
                   /\ result.variant =
                          (IF request.map = "Map"
                           THEN "DedicatedMapped" ELSE "Dedicated")
                   /\ result.size = request.requirements.size
        ELSE /\ result.tag = "panic"
             /\ filter_calls = <<>>
             /\ generic_calls = <<>> /\ native_allocs = <<>>

\* A small request that does not prefer a dedicated allocation, mapped.
C21_Witness ==
    /\ BothExtensions
    /\ request.requirements.size = 1
    /\ ~request.requirements.prefer_dedicated
    /\ request.dedicated = "None"
    /\ result.tag = "Ok"
    /\ result.variant = "DedicatedMapped"

(***************************************************************************)
(* Further properties of the allocator (checked under SpecAlloc)           *)
(***************************************************************************)
TypeOfId(id) == CHOOSE t \in DeviceTypes : t.id = id

\* C22: the memory_type_bits test and the host-visibility test come before
\* the caller's filter: the filter is never invoked with a type whose bit is
\* absent, nor with a non-host-visible type when map is Map, and no such
\* type is chosen even if the filter would mark it Preferred.
C22_FilterAskedOnlyAboutEligibleTypes ==
    /\ \A i \in 1..Len(filter_calls) :
          /\ filter_calls[i] \in { t.id : t \in DeviceTypes }
          /\ Eligible(TypeOfId(filter_calls[i]))
    /\ \A t \in PassedTypes : Eligible(t)

\* The filter prefers a type that is not host-visible; the request maps; the
\* filter was asked, but never about that type.
C22_Witness ==
    /\ request.map = "Map"
    /\ filter_calls # <<>>
    /\ \E u \in DeviceTypes :
          /\ ~u.host_visible
          /\ HasBit(request.requirements.memory_type_bits, u.id)
          /\ request.filter[u.id] = "Preferred"
          /\ \A i \in 1..Len(filter_calls) : filter_calls[i] # u.id
    /\ Returned

\* C23: alloc_from_requirements never calls alloc_generic with map = Map and
\* a memory type that is not host-visible, whatever the requirements, the
\* filter and the dedicated hint.
C23_NoMapOnNonHostVisible ==
    \A i \in 1..Len(generic_calls) :
        generic_calls[i].map = "Map" => generic_calls[i].ty.host_visible

\* A Map request served by the pool on a device that also has a type that is
\* not host-visible, allowed by mask and filter.
C23_Witness ==
    /\ Len(generic_calls) = 1
    /\ generic_calls[1].map = "Map"
    /\ \E u \in DeviceTypes :
          /\ ~u.host_visible
          /\ u.id < generic_calls[1].ty.id
          /\ HasBit(request.requirements.memory_type_bits, u.id)
          /\ request.filter[u.id] # "Forbidden"

LiveSemaphores ==
    semaphores \cup { local[t] : t \in { u \in Threads : pc[u] # "idle" /\
                                          local[u] # NoSemaphore } }

Owners(h) == { sem \in LiveSemaphores : sem.semaphore = h }

InFreeList(h) ==
    Cardinality({ i \in 1..Len(semaphore_pool) : semaphore_pool[i] = h })
        + Cardinality({ i \in 1..Len(exportable_semaphore_pool) :
                          exportable_semaphore_pool[i] = h })

\* C25: under every interleaving of from_pool, alloc and drop each native
\* handle is in exactly one place: owned by one live Semaphore, or once in
\* the free list, or destroyed (once); never owned twice, never in the free
\* list while owned.
C25_HandleInExactlyOnePlace ==
    /\ \A h \in 1..created :
          /\ Cardinality(Owners(h)) + InFreeList(h) + destroy_count[h] = 1
    /\ \A h \in Handles \ (1..created) :
          Cardinality(Owners(h)) + InFreeList(h) + destroy_count[h] = 0

\* One thread is putting a handle back while the other has just been handed
\* the handle that was in the free list.
C25_Witness ==
    \E t \in Threads :
        /\ pc[t] = "drop_push"
        /\ last_op = Op("from_pool", "Ok", 1, TRUE)
        /\ local[t].semaphore = 2
        /\ semaphore_pool = <<>>

(***************************************************************************)
(* Conservation of pooled semaphores (checked under SpecSem)               *)
(***************************************************************************)
FromPoolCreated == { h \in 1..created : created_by[h] = "from_pool" }

PoolFlagged == { sem \in semaphores : sem.must_put_in_pool }

\* Only from_pool, alloc and drop have been used.
OnlyPlainSemaphores == exportable = {}

Conserved ==
    OnlyPlainSemaphores =>
        /\ Cardinality(FromPoolCreated)
               = Cardinality(PoolFlagged) + Len(semaphore_pool)
        /\ \A h \in FromPoolCreated : destroy_count[h] = 0

CreatesOnlyOnEmptyList ==
    (created_by' # created_by /\ last_op'.op = "from_pool")
        => semaphore_pool = <<>>

\* C26: after any sequence of from_pool and drop operations the native
\* semaphores created by from_pool are as many as the live pool-flagged
\* Semaphores plus the free-list entries; none of them is ever destroyed;
\* and from_pool creates one only when the free list is empty.
C26_PooledSemaphoresConserved ==
    []Conserved /\ [][CreatesOnlyOnEmptyList]_vars

\* Two pooled semaphores made, one back in the free list, one alive.
C26_Witness ==
    /\ Cardinality(FromPoolCreated) = 2
    /\ Len(semaphore_pool) = 1
    /\ Cardinality(PoolFlagged) = 1
    /\ OnlyPlainSemaphores

(***************************************************************************)
(* Failure of native creation in from_pool (checked under SpecSem)         *)
(***************************************************************************)
OomError == {"OutOfHostMemory", "OutOfDeviceMemory"}

FromPoolFailed(o) == o.op = "from_pool" /\ o.res \in OomError

\* Every Semaphore and every free-list entry holds a handle that the native
\* layer created.
OnlyCreatedHandles ==
    /\ \A sem \in semaphores : sem.semaphore \in 1..created
    /\ \A i \in 1..Len(semaphore_pool) : semaphore_pool[i] \in 1..created

\* C27: when native creation fails while from_pool serves an empty free
\* list, from_pool returns the OomError, the free list stays empty, and no
\* Semaphore comes into being, so none can later push a handle that was
\* never created.
C27_FailedCreationLeavesNothing ==
    /\ []OnlyCreatedHandles
    /\ [][FromPoolFailed(last_op') =>
            /\ semaphore_pool = <<>>
            /\ semaphore_pool' = <<>>
            /\ semaphores' = semaphores
            /\ created' = created]_vars

\* from_pool failed with semaphores alive and one destroyed before.
C27_Witness ==
    /\ FromPoolFailed(last_op)
    /\ semaphore_pool = <<>>
    /\ semaphores # {}
    /\ created = 2

====
